---- MODULE Spec2Model ----
(***************************************************************************)
(* Task-Daddy: the Jira synchronisation engine (apps/api/app/jira).        *)
(* State: the local task / comment / sync-run store, the remote tracker    *)
(* (its records, comments and the way it answers), and the record of the   *)
(* last engine call (requests sent, audit events written, result).         *)
(***************************************************************************)
EXTENDS Integers, Sequences, FiniteSets, TLC

\* ---------------------------------------------------------------- bounds
MaxTasks == 2
MaxIssues == 3
MaxLinkTime == 4
MaxCommentTime == 5
MaxRemoteComments == 2
MaxAppComments == 2
PageSize == 2
MaxRuns == 2
MaxRunTime == 5
MaxRemoteEdits == 2
MaxSessions == 2

\* ------------------------------------------------------------- variables
VARIABLES
  tasks,      \* Seq of Task rows (models.py Task); the task id is the index
  issues,     \* Seq of remote records; the record key is the index
  lastCall,   \* the last engine call: op, task, requests sent, audit written, result
  now,        \* the clock read by datetime.now(timezone.utc)
  remote,     \* how the remote validates create requests and pages its answers
  connOk,     \* whether the connection's stored credential decrypts
  comments,   \* Seq of Comment rows (models.py Comment); the comment id is the index
  rcomments,  \* Seq of remote comments; the remote comment id is the index
  seen,       \* per task, the remote comment ids its last completed import listed
  lanes,      \* the board's lanes, ordered by position
  profiles,   \* Seq of JiraSyncProfile rows
  runs,       \* Seq of SyncRun rows
  proc,       \* the run routine in progress (its local variables), or idle
  sessions    \* per concurrent request: its run routine and its uncommitted rows

linkVars == <<tasks, issues, lastCall, now, remote, connOk>>
commentVars == <<comments, rcomments, seen>>
runVars == <<lanes, profiles, runs, proc, sessions>>
vars == <<linkVars, commentVars, runVars>>

\* What a call keeps of the call before it (none: no pull or sync came before).
NoBefore == [op |-> "none", task |-> 0, clean |-> FALSE, rcommentsAfter |-> <<>>]

NoCall == [op |-> "none", task |-> 0, pre |-> <<>>, issuesBefore |-> 0,
           reqs |-> <<>>, resps |-> <<>>, audit |-> <<>>, result |-> "none",
           inserted |-> 0, exported |-> 0, listed |-> {}, prev |-> {},
           profilesBefore |-> 0, runsBefore |-> 0, connOk |-> TRUE,
           commentsBefore |-> <<>>, rcommentsBefore |-> <<>>, rcommentsAfter |-> <<>>,
           importRaised |-> FALSE, before |-> NoBefore]

Idle == [pc |-> "idle"]

\* A request's database session before its handler runs: nothing fetched, no
\* uncommitted row (changed: rows it updated, new: rows it added).
IdleSession ==
  [pc |-> "idle", row |-> <<>>, next_token |-> 0,
   page |-> [issues |-> <<>>, nextPageToken |-> 0, isLast |-> FALSE], idx |-> 0,
   imported |-> 0, updated |-> 0, conflicts |-> 0,
   changed |-> {}, new |-> <<>>, found |-> 0, alone |-> FALSE]

NoSessions == [s \in 1..MaxSessions |-> IdleSession]

\* ------------------------------------------------------------ the store
\* A task as a user creates it: no link (models.py Task defaults).
LocalTask(i) ==
  [title |-> "local", priority |-> "P2", type |-> "Feature", tags |-> {},
   due_date |-> 0, lane_id |-> 1, state_key |-> "backlog", owner_id |-> 1,
   jira_key |-> 0, jira_url |-> 0, jira_connection_id |-> 0,
   jira_sync_enabled |-> FALSE, jira_project_key |-> "", jira_issue_type |-> "",
   jira_updated_at |-> 0, jira_last_sync_at |-> 0,
   order_index |-> i - 1, version |-> 0, updated_at |-> 0]

\* The board of the model: a backlog lane and a done lane, by position.
BoardLanes ==
  <<[id |-> 1, state_key |-> "backlog", type |-> "backlog", name |-> "Backlog"],
    [id |-> 2, state_key |-> "done", type |-> "done", name |-> "Done"]>>

\* f"task-daddy-task-{task.id}"
id_label(tid) == <<"task-daddy-task", tid>>

\* ------------------------------------------------ create_jira_issue_from_task
AssigneeModes == {"taskOwner", "connectionDefault", "unassigned", "projectDefault"}
CreateFaults == {"ok", "500", "nokey"}
SearchOutcomes == {"ok", "error", "nokey"}
AssignOutcomes == {"ok", "api", "net"}

AlreadyLinkedNever(task) == FALSE

CredentialFailsNever(ok) == FALSE

\* decrypt_integration_secret raises IntegrationSecretDecryptError (answered 400)
CredentialFails(ok) == ~ok

\* if task.jira_key: return task
AlreadyLinked(task) == task.jira_key # 0

\* The records the remote holds under the label (what labels = "<id_label>" matches).
MarkerHits(tid, iss) == {k \in 1..Len(iss) : id_label(tid) \in iss[k].labels}

SetMin(S) == CHOOSE x \in S : \A y \in S : x <= y

\* The key the marker search yields: issues[0].key of a non-empty answer; 0 when
\* the search raised (swallowed), returned nothing, or its first record has no key.
RelinkKey(s, hits) ==
  IF s = "ok" /\ hits # {} THEN SetMin(hits) ELSE 0

\* _resolve_assignee_account_id: acct is what the owner / connection lookup gives
\* (0: none); the modes unassigned and projectDefault never set an assignee.
ResolveAssignee(mode, acct) ==
  IF mode \in {"unassigned", "projectDefault"} THEN 0 ELSE acct

\* The remote's answer to one create request carrying (priority?, assignee?).
CreateAnswer(p, a, fault) ==
  IF (p /\ remote.rejectPriority) \/ (a /\ remote.rejectAssignee) THEN "400" ELSE fault

Attempt(p, a, fault) == [prio |-> p, assg |-> a, res |-> CreateAnswer(p, a, fault)]

Accepted(res) == res \in {"ok", "nokey"}

CreateAttemptsNoStop(acct, f) ==
  <<Attempt(TRUE, acct # 0, f[1]), Attempt(FALSE, acct # 0, f[2]),
    Attempt(FALSE, FALSE, f[3])>>

\* The create requests of one call, in order, each with its answer:
\* all fields; on 400 without priority; on any JiraApiError without assignee.
CreateAttempts(acct, f) ==
  LET a1 == Attempt(TRUE, acct # 0, f[1])
      a2 == Attempt(FALSE, acct # 0, f[2])
      a3 == Attempt(FALSE, FALSE, f[3])
  IN  IF a1.res # "400" THEN <<a1>>
      ELSE IF a2.res \in {"400", "500"} THEN <<a1, a2, a3>>
      ELSE <<a1, a2>>

CreateReq(at) ==
  IF at.prio /\ at.assg THEN "create:priority+assignee"
  ELSE IF at.prio THEN "create:priority"
  ELSE IF at.assg THEN "create:assignee"
  ELSE "create:plain"

\* The record the remote stores for an accepted create request.
CreatedIssue(task, tid, at) ==
  [summary |-> task.title, priority |-> IF at.prio THEN "High" ELSE "",
   issuetype |-> "Task", labels |-> {<<"task-daddy", 0>>, id_label(tid)},
   duedate |-> 0, status |-> "To Do", updated |-> now]

\* The link fields create-and-link stamps on the task (relink and create alike).
Linked(task, key) ==
  [task EXCEPT !.jira_connection_id = 1, !.jira_key = key, !.jira_url = key,
               !.jira_sync_enabled = TRUE, !.jira_project_key = "PRJ",
               !.jira_issue_type = "Task", !.jira_last_sync_at = now,
               !.version = @ + 1, !.updated_at = now + 1]

AssignFatalAlways(a) == a # "ok"

\* set-assignee is wrapped in "except JiraApiError": any other exception (a
\* transport error) leaves the handler.
AssignFatal(a) == a = "net"

Call(op, tid, pre, reqs, resps, audit, result) ==
  [op |-> op, task |-> tid, pre |-> pre, issuesBefore |-> Len(issues),
   reqs |-> reqs, resps |-> resps, audit |-> audit, result |-> result,
   inserted |-> 0, exported |-> 0, listed |-> {}, prev |-> {},
   profilesBefore |-> Len(profiles), runsBefore |-> Len(runs), connOk |-> connOk,
   commentsBefore |-> comments, rcommentsBefore |-> rcomments,
   rcommentsAfter |-> rcomments, importRaised |-> FALSE, before |-> NoBefore]

Last(s) == s[Len(s)]

\* POST /tasks/{id}/jira/create: the whole handler. A raised exception leaves the
\* session uncommitted (the task keeps its row) while the remote keeps what it stored.
create_jira_issue_from_task(tid, mode, acct0, s, f, a) ==
  LET task == tasks[tid]
      acct == ResolveAssignee(mode, acct0)
      hits == MarkerHits(tid, issues)
      found == RelinkKey(s, hits)
      ats == CreateAttempts(acct, f)
      final == Last(ats).res
      creqs == [i \in 1..Len(ats) |-> CreateReq(ats[i])]
      cresps == [i \in 1..Len(ats) |-> ats[i].res]
      stored == IF Accepted(final)
                THEN Append(issues, CreatedIssue(task, tid, Last(ats))) ELSE issues
      key == Len(issues) + 1
      assigns == mode = "unassigned" \/ acct # 0
  IN
  /\ tid \in 1..Len(tasks)
  /\ IF AlreadyLinked(task)
     THEN /\ lastCall' = Call("create", tid, task, <<>>, <<>>, <<>>, "ok")
          /\ UNCHANGED <<tasks, issues>>
     ELSE IF CredentialFails(connOk)
     THEN /\ lastCall' = Call("create", tid, task, <<>>, <<>>, <<>>, "decrypt400")
          /\ UNCHANGED <<tasks, issues>>
     ELSE IF found # 0
     THEN /\ tasks' = [tasks EXCEPT ![tid] = Linked(task, found)]
          /\ lastCall' = Call("create", tid, task, <<"search">>, <<s>>,
                              <<"task.jira.relinked">>, "ok")
          /\ UNCHANGED issues
     ELSE /\ Len(issues) < MaxIssues
          /\ issues' = stored
          /\ IF final = "ok" /\ ~(assigns /\ AssignFatal(a))
             THEN /\ tasks' = [tasks EXCEPT ![tid] = Linked(task, key)]
                  /\ lastCall' = Call("create", tid, task,
                       <<"search">> \o creqs \o (IF assigns THEN <<"assign">> ELSE <<>>),
                       <<s>> \o cresps \o (IF assigns THEN <<a>> ELSE <<>>),
                       (IF assigns /\ a = "api" THEN <<"task.jira.assign_failed">> ELSE <<>>)
                         \o <<"task.jira.created">>,
                       "ok")
             ELSE /\ UNCHANGED tasks
                  /\ lastCall' = Call("create", tid, task,
                       <<"search">> \o creqs
                         \o (IF final = "ok" /\ assigns THEN <<"assign">> ELSE <<>>),
                       <<s>> \o cresps
                         \o (IF final = "ok" /\ assigns THEN <<a>> ELSE <<>>),
                       <<>>, "raised")
  /\ now' = now + 1
  /\ UNCHANGED <<remote, connOk, commentVars, runVars>>

\* The fields link_task_to_jira_issue stamps, read at time t and flushed at t + 1.
ManuallyLinked(task, jira_key, t) ==
  [task EXCEPT !.jira_connection_id = 1, !.jira_key = jira_key,
               !.jira_url = jira_key, !.jira_sync_enabled = TRUE,
               !.jira_last_sync_at = t, !.version = @ + 1, !.updated_at = t + 1]

\* POST /tasks/{id}/jira/link: link_task_to_jira_issue, no request to the remote.
link_task_to_jira_issue(tid, jira_key) ==
  /\ tid \in 1..Len(tasks)
  /\ IF CredentialFails(connOk)
     THEN /\ lastCall' = Call("link", tid, tasks[tid], <<>>, <<>>, <<>>, "decrypt400")
          /\ UNCHANGED tasks
     ELSE /\ tasks' = [tasks EXCEPT ![tid] = ManuallyLinked(@, jira_key, now)]
          /\ lastCall' = Call("link", tid, tasks[tid], <<>>, <<>>,
                              <<"task.jira.linked">>, "ok")
  /\ now' = now + 1
  /\ UNCHANGED <<issues, remote, connOk, commentVars, runVars>>

InitLink ==
  /\ tasks = [i \in 1..MaxTasks |-> LocalTask(i)]
  /\ issues = <<>>
  /\ lastCall = NoCall
  /\ now = 1
  /\ remote \in [rejectPriority : BOOLEAN, rejectAssignee : BOOLEAN, paging : {"token"}]
  /\ connOk \in BOOLEAN
  /\ comments = <<>> /\ rcomments = <<>> /\ seen = [t \in 1..MaxTasks |-> {}]
  /\ lanes = BoardLanes /\ profiles = <<>> /\ runs = <<>> /\ proc = Idle
  /\ sessions = NoSessions

\* The inputs of one call; an input the call never reads is fixed to its first value.
Creates(tid, s) ==
  ~AlreadyLinked(tasks[tid]) /\ connOk /\ RelinkKey(s, MarkerHits(tid, issues)) = 0

CreateAndLink ==
  /\ now < MaxLinkTime
  /\ \E tid \in 1..MaxTasks, mode \in AssigneeModes :
       \E acct0 \in (IF mode \in {"unassigned", "projectDefault"} THEN {0} ELSE {0, 1}) :
       \E s \in (IF ~AlreadyLinked(tasks[tid]) /\ connOk THEN SearchOutcomes ELSE {"ok"}) :
       \E f1 \in (IF Creates(tid, s) THEN CreateFaults ELSE {"ok"}) :
       \E f2 \in (IF Creates(tid, s) /\ CreateAnswer(TRUE, acct0 # 0, f1) = "400"
                   THEN CreateFaults ELSE {"ok"}) :
       \E f3 \in (IF Creates(tid, s) /\ CreateAnswer(TRUE, acct0 # 0, f1) = "400"
                      /\ CreateAnswer(FALSE, acct0 # 0, f2) \in {"400", "500"}
                   THEN CreateFaults ELSE {"ok"}) :
       \E a \in (IF Creates(tid, s) /\ (mode = "unassigned" \/ acct0 # 0)
                  THEN AssignOutcomes ELSE {"ok"}) :
         create_jira_issue_from_task(tid, mode, acct0, s, <<f1, f2, f3>>, a)

ManualLink ==
  /\ now < MaxLinkTime
  /\ \E tid \in 1..MaxTasks, k \in 1..MaxIssues : link_task_to_jira_issue(tid, k)

NextLink == CreateAndLink \/ ManualLink

SpecLink == InitLink /\ [][NextLink]_vars

\* ------------------------------------------------------------ comment bridge
GetOutcomes == {"ok", "error"}
ListOutcomes == {"ok", "dup", "error"}
ExportOutcomes == {"ok", "noid", "error"}

\* Indices of seq s that satisfy Test, ascending, as a sequence.
RECURSIVE IdxSeq(_, _, _)
IdxSeq(S, from, to) ==
  IF from > to THEN <<>>
  ELSE (IF from \in S THEN <<from>> ELSE <<>>) \o IdxSeq(S, from + 1, to)

\* jira_list_comments: the comments of record key, paged to exhaustion; with "dup"
\* two pages overlap and the last comment is listed twice.
RemoteList(key, l) ==
  LET base == IdxSeq({i \in 1..Len(rcomments) : rcomments[i].issue = key},
                     1, Len(rcomments))
  IN  IF l = "dup" /\ base # <<>> THEN base \o <<Last(base)>> ELSE base

\* select Comment.source_id where task_id, source == "jira", source_id in ids
ExistingIds(tid, ids) ==
  {comments[i].source_id : i \in {j \in 1..Len(comments) :
      /\ comments[j].task_id = tid
      /\ comments[j].source = "jira"
      /\ comments[j].source_id \in ids}}

ImportedComment(tid, cid) ==
  [task_id |-> tid, source |-> "jira", source_id |-> cid, jira_comment_id |-> 0,
   body |-> "JIRA:>>", created_at |-> cid]

\* A body that is not a well-formed document: plain_text_from_adf raises on it.
Malformed(body) == body = "malformed"

RECURSIVE ImportNewNoAdd(_, _, _)
ImportNewNoAdd(list, existing, tid) ==
  IF list = <<>> THEN <<>>
  ELSE IF Head(list) \in existing
       THEN ImportNewNoAdd(Tail(list), existing, tid)
       ELSE IF Malformed(rcomments[Head(list)].body) THEN <<>>
       ELSE IF rcomments[Head(list)].body = ""
       THEN ImportNewNoAdd(Tail(list), existing, tid)
       ELSE <<ImportedComment(tid, Head(list))>>
              \o ImportNewNoAdd(Tail(list), existing, tid)

\* The insert loop of _import_jira_comments: skip a listed id that is already
\* present or whose body is empty, insert the others and remember their ids; the
\* loop ends at a comment whose body cannot be converted (the exception leaves
\* the rows added so far in the session).
RECURSIVE ImportNew(_, _, _)
ImportNew(list, existing, tid) ==
  IF list = <<>> THEN <<>>
  ELSE IF Head(list) \in existing
       THEN ImportNew(Tail(list), existing, tid)
       ELSE IF Malformed(rcomments[Head(list)].body) THEN <<>>
       ELSE IF rcomments[Head(list)].body = ""
       THEN ImportNew(Tail(list), existing, tid)
       ELSE <<ImportedComment(tid, Head(list))>>
              \o ImportNew(Tail(list), existing \cup {Head(list)}, tid)

SeqSet(s) == {s[i] : i \in 1..Len(s)}

\* Whether the insert loop raises: a listed comment that is not present yet has a
\* body that cannot be converted.
ImportRaises(tid, key, l) ==
  LET list == RemoteList(key, l)
  IN \E i \in 1..Len(list) :
       /\ list[i] \notin ExistingIds(tid, SeqSet(list))
       /\ Malformed(rcomments[list[i]].body)

\* _import_jira_comments(task): the rows to insert.
_import_jira_comments(tid, key, l) ==
  LET list == RemoteList(key, l)
  IN  ImportNew(list, ExistingIds(tid, SeqSet(list)), tid)

\* The rows _export_task_comments_to_jira selects: app comments of the task with a
\* null export marker, oldest first.
RECURSIVE SortByCreated(_, _)
SortByCreated(S, cm) ==
  IF S = {} THEN <<>>
  ELSE LET m == CHOOSE i \in S : \A j \in S :
                  \/ cm[i].created_at < cm[j].created_at
                  \/ (cm[i].created_at = cm[j].created_at /\ i <= j)
       IN  <<m>> \o SortByCreated(S \ {m}, cm)

ExportRowsAll(tid, cm) ==
  SortByCreated({i \in 1..Len(cm) : cm[i].task_id = tid /\ cm[i].source = "app"}, cm)

ExportRowsMarkedToo(tid, cm) ==
  SortByCreated({i \in 1..Len(cm) : cm[i].task_id = tid /\ cm[i].source = "app"}, cm)

ExportRows(tid, cm) ==
  SortByCreated({i \in 1..Len(cm) : /\ cm[i].task_id = tid
                                     /\ cm[i].source = "app"
                                     /\ cm[i].jira_comment_id = 0}, cm)

ExportedRemote(key, c) ==
  [issue |-> key, body |-> "text", by |-> c]

\* The export loop: one add-comment per row; an answer with an id stamps the row,
\* an accepted request whose answer has no usable id, or a raised one, does not.
RECURSIVE ExportLoop(_, _, _, _, _, _)
ExportLoopAbort(rows, e, k, key, rc, cm) ==
  IF k > Len(rows) \/ e[k] = "error" THEN [rc |-> rc, cm |-> cm, exported |-> 0]
  ELSE LET c == rows[k]
           rc1 == Append(rc, ExportedRemote(key, c))
           cm1 == IF e[k] = "ok"
                  THEN [cm EXCEPT ![c].jira_comment_id = Len(rc1)] ELSE cm
           rest == ExportLoop(rows, e, k + 1, key, rc1, cm1)
       IN  [rest EXCEPT !.exported = @ + (IF e[k] = "ok" THEN 1 ELSE 0)]

ExportLoop(rows, e, k, key, rc, cm) ==
  IF k > Len(rows) THEN [rc |-> rc, cm |-> cm, exported |-> 0]
  ELSE LET c == rows[k]
           rc1 == IF e[k] = "error" THEN rc ELSE Append(rc, ExportedRemote(key, c))
           cm1 == IF e[k] = "ok"
                  THEN [cm EXCEPT ![c].jira_comment_id = Len(rc1)] ELSE cm
           rest == ExportLoop(rows, e, k + 1, key, rc1, cm1)
       IN  [rest EXCEPT !.exported = @ + (IF e[k] = "ok" THEN 1 ELSE 0)]

NotLinkedNoKeyOnly(task) == task.jira_key = 0

\* if not task.jira_connection_id or not task.jira_key: raise RuntimeError
NotLinked(task) == task.jira_connection_id = 0 \/ task.jira_key = 0

\* The fields pull_task_from_jira overwrites from the remote record.
Pulled(task, issue) ==
  [task EXCEPT !.title = issue.summary, !.tags = issue.labels,
               !.due_date = issue.duedate, !.jira_url = task.jira_key,
               !.jira_updated_at = issue.updated, !.jira_last_sync_at = now,
               !.version = @ + 1, !.updated_at = now + 1]

\* pull_task_from_jira (export = FALSE) and sync_task_with_jira (export = TRUE):
\* the whole handler. g: the answer to get-issue; l: to list-comments; e: to each
\* add-comment.
PullOrSync(tid, export, g, l, e) ==
  LET task == tasks[tid]
      key == task.jira_key
      op == IF export THEN "sync" ELSE "pull"
      gotIssue == g = "ok" /\ key \in 1..Len(issues)
      new == IF l = "error" THEN <<>> ELSE _import_jira_comments(tid, key, l)
      raises == l # "error" /\ ImportRaises(tid, key, l)
      cm1 == comments \o new
      out == IF export THEN ExportLoop(ExportRows(tid, cm1), e, 1, key, rcomments, cm1)
             ELSE [rc |-> rcomments, cm |-> cm1, exported |-> 0]
      nadd == Len(out.rc) - Len(rcomments)
  IN
  /\ now < MaxCommentTime
  /\ tid \in 1..Len(tasks)
  /\ IF NotLinked(task)
     THEN /\ lastCall' = Call(op, tid, task, <<>>, <<>>, <<>>, "notlinked")
          /\ UNCHANGED <<tasks, comments, rcomments, seen>>
     ELSE IF CredentialFails(connOk)
     THEN /\ lastCall' = Call(op, tid, task, <<>>, <<>>, <<>>, "decrypt400")
          /\ UNCHANGED <<tasks, comments, rcomments, seen>>
     ELSE IF ~gotIssue
     THEN /\ lastCall' = Call(op, tid, task, <<"get">>, <<"error">>, <<>>, "raised")
          /\ UNCHANGED <<tasks, comments, rcomments, seen>>
     ELSE /\ Len(out.rc) <= MaxRemoteComments
          /\ tasks' = [tasks EXCEPT ![tid] = Pulled(task, issues[key])]
          /\ comments' = out.cm
          /\ rcomments' = out.rc
          /\ seen' = IF l = "error" \/ raises THEN seen
                     ELSE [seen EXCEPT ![tid] = SeqSet(RemoteList(key, l))]
          /\ lastCall' =
               [Call(op, tid, task,
                     <<"get", "list">> \o [i \in 1..(IF export THEN Len(ExportRows(tid, cm1)) ELSE 0) |-> "addComment"],
                     <<g, l>> \o [i \in 1..(IF export THEN Len(ExportRows(tid, cm1)) ELSE 0) |-> e[i]],
                     (IF new # <<>> /\ ~raises
                        THEN <<"task.jira.comments.pulled">> ELSE <<>>)
                       \o <<"task.jira.pulled">>
                       \o (IF out.exported > 0 THEN <<"task.jira.comments.pushed">> ELSE <<>>),
                     "ok")
                EXCEPT !.inserted = Len(new), !.exported = out.exported,
                       !.listed = IF l = "error" THEN {} ELSE SeqSet(RemoteList(key, l)),
                       !.prev = seen[tid], !.rcommentsAfter = out.rc,
                       !.importRaised = raises,
                       !.before = [op |-> lastCall.op, task |-> lastCall.task,
                                   clean |-> /\ lastCall.result = "ok"
                                             /\ \A i \in 1..Len(lastCall.resps) :
                                                  lastCall.resps[i] = "ok",
                                   rcommentsAfter |-> lastCall.rcommentsAfter]]
  /\ now' = now + 1
  /\ UNCHANGED <<issues, remote, connOk, runVars>>

\* POST /tasks/{id}/comments: a user writes a comment (source "app").
AddComment(tid) ==
  /\ now < MaxCommentTime
  /\ Cardinality({i \in 1..Len(comments) : comments[i].source = "app"}) < MaxAppComments
  /\ comments' = Append(comments,
       [task_id |-> tid, source |-> "app", source_id |-> 0, jira_comment_id |-> 0,
        body |-> "text", created_at |-> now])
  /\ lastCall' = Call("comment", tid, tasks[tid], <<>>, <<>>, <<"comment.created">>, "ok")
  /\ now' = now + 1
  /\ UNCHANGED <<tasks, issues, remote, connOk, rcomments, seen, runVars>>

\* A user of the remote tracker writes a comment on a record; a body without text
\* nodes converts to the empty string, a malformed one makes the conversion raise.
RemoteComment(key, body) ==
  /\ Len(rcomments) < MaxRemoteComments
  /\ rcomments' = Append(rcomments, [issue |-> key, body |-> body, by |-> 0])
  /\ UNCHANGED <<linkVars, comments, seen, runVars>>

\* A remote record as its tracker holds it.
RemoteIssue(sum, st, upd) ==
  [summary |-> sum, priority |-> "High", issuetype |-> "Task",
   labels |-> {<<"label", 1>>}, duedate |-> 0, status |-> st, updated |-> upd]

InitComments ==
  /\ issues = <<RemoteIssue("remote", "To Do", 0)>>
  /\ \E kind \in [2..MaxTasks -> {"linked", "local", "keyOnly"}] :
       tasks = [i \in 1..MaxTasks |->
                  IF i = 1 \/ kind[i] = "linked" THEN ManuallyLinked(LocalTask(i), 1, 0)
                  ELSE IF kind[i] = "keyOnly"
                  THEN [LocalTask(i) EXCEPT !.jira_key = 1, !.jira_url = 1]
                  ELSE LocalTask(i)]
  /\ lastCall = NoCall
  /\ now = 1
  /\ remote = [rejectPriority |-> FALSE, rejectAssignee |-> FALSE, paging |-> "token"]
  /\ connOk \in BOOLEAN
  /\ comments = <<>> /\ rcomments = <<>> /\ seen = [t \in 1..MaxTasks |-> {}]
  /\ lanes = BoardLanes /\ profiles = <<>> /\ runs = <<>> /\ proc = Idle
  /\ sessions = NoSessions

Pull ==
  \E tid \in 1..MaxTasks :
  \E g \in (IF NotLinked(tasks[tid]) \/ ~connOk THEN {"ok"} ELSE GetOutcomes) :
  \E l \in (IF NotLinked(tasks[tid]) \/ ~connOk \/ g # "ok" THEN {"ok"} ELSE ListOutcomes) :
    PullOrSync(tid, FALSE, g, l, <<>>)

Sync ==
  \E tid \in 1..MaxTasks :
  \E g \in (IF NotLinked(tasks[tid]) \/ ~connOk THEN {"ok"} ELSE GetOutcomes) :
  \E l \in (IF NotLinked(tasks[tid]) \/ ~connOk \/ g # "ok" THEN {"ok"} ELSE ListOutcomes) :
  \E e \in [1..(IF NotLinked(tasks[tid]) \/ ~connOk \/ g # "ok" THEN 0
                ELSE Len(ExportRowsAll(tid, comments))) -> ExportOutcomes] :
    PullOrSync(tid, TRUE, g, l, e)

UserComments == \E tid \in 1..MaxTasks : AddComment(tid)

RemoteComments == \E body \in {"text", "", "malformed"} : RemoteComment(1, body)

NextComments == Pull \/ Sync \/ UserComments \/ RemoteComments

SpecComments == InitComments /\ [][NextComments]_vars

\* ------------------------------------------------------------- _run_sync
Statuses == {"To Do", "Done"}
Policies == {"jiraWins", "appWins", "manual"}
FetchOutcomes == {"ok", "error"}

\* The maps an import request carries (schemas.py JiraImportIn); "" = no entry.
StatusMaps ==
  {[s \in Statuses |-> IF s = "Done" THEN "done" ELSE ""], [s \in Statuses |-> ""]}
PriorityMap == [n \in {"High"} |-> "P1"]
TypeMap == [n \in {"Bug"} |-> "Bug"]

\* (m or {}).get(k) or default
MapGet(m, k, default) == IF k \in DOMAIN m /\ m[k] # "" THEN m[k] ELSE default

SetMax(S) == CHOOSE x \in S : \A y \in S : x >= y

\* GET /rest/api/3/search/jql as the remote answers it: the page that starts at
\* the token (0 = no token), at most PageSize records, and the token of the next
\* page when there is one.
SearchPage(token) ==
  LET n == Len(issues)
      start == IF token = 0 THEN 1 ELSE token
      end == IF start + PageSize - 1 < n THEN start + PageSize - 1 ELSE n
      next == IF end < n THEN end + 1 ELSE 0
  IN [issues |-> [i \in 1..(end - start + 1) |-> start + i - 1],
      nextPageToken |-> next, isLast |-> next = 0]

\* is_last = bool(data.get("isLast")) or not next_token
is_last(data) == data.isLast \/ data.nextPageToken = 0

\* lane_by_state = {l.state_key: l for l in lanes}: the last lane of a state key
LaneByState(ls, state_key) ==
  LET S == {i \in 1..Len(ls) : ls[i].state_key = state_key}
  IN IF S = {} THEN 0 ELSE SetMax(S)

BacklogLaneFirst(ls) == IF Len(ls) > 0 THEN 1 ELSE 0

\* next((l for l in lanes if l.type == "backlog"), lanes[0] if lanes else None)
BacklogLane(ls) ==
  LET S == {i \in 1..Len(ls) : ls[i].type = "backlog"}
  IN IF S # {} THEN SetMin(S) ELSE IF Len(ls) > 0 THEN 1 ELSE 0

NoLanesNever(ls) == FALSE

\* if not backlog_lane: raise RuntimeError("Board has no lanes")
NoLanes(ls) == BacklogLane(ls) = 0

\* The lane of a record: the lane its status maps to, else the backlog lane.
LaneFor(profile, ls, status) ==
  LET state_key == MapGet(profile.status_to_state_key, status, "")
      l == IF state_key # "" THEN LaneByState(ls, state_key) ELSE 0
  IN IF l # 0 THEN ls[l] ELSE ls[BacklogLane(ls)]

\* The state key the record's task gets: the mapped key when it names a lane,
\* the default lane's otherwise (lines 637-641).
StateKeyFor(profile, ls, status) ==
  LET state_key == MapGet(profile.status_to_state_key, status, "")
      l == IF state_key # "" THEN LaneByState(ls, state_key) ELSE 0
  IN IF l # 0 THEN state_key ELSE ls[BacklogLane(ls)].state_key

\* select(Task).where(board, jira_key == key)
Matches(ts, key) == {t \in 1..Len(ts) : ts[t].jira_key = key}

\* order_by(updated_at desc, created_at desc, id desc) then matches[0]
Canonical(ts, S) ==
  CHOOSE t \in S : \A u \in S :
    \/ ts[t].updated_at > ts[u].updated_at
    \/ ts[t].updated_at = ts[u].updated_at /\ t >= u

\* The rows a query of the run's session reads: the session writes the rows it
\* has added before it runs a query, so the run's own new tasks are among them.
SeenByQuery(ts) == [t \in 1..Len(ts) |-> ts[t]]

NewOrderCount(ts, lane_id) == Cardinality({u \in 1..Len(ts) : ts[u].lane_id = lane_id})

\* (max(order_index) of the lane) + 1, or 0 for an empty lane
NewOrder(ts, lane_id) ==
  LET S == {ts[t].order_index : t \in {u \in 1..Len(ts) : ts[u].lane_id = lane_id}}
  IN IF S = {} THEN 0 ELSE SetMax(S) + 1

\* Task(...) of a record that matched no task; written at the flush after t.
ImportedTask(issue, key, lane, profile, ts, t) ==
  [title |-> issue.summary,
   priority |-> MapGet(profile.priority_map, issue.priority, "P2"),
   type |-> MapGet(profile.type_map, issue.issuetype, "Feature"),
   tags |-> issue.labels, due_date |-> issue.duedate,
   lane_id |-> lane.id, state_key |-> StateKeyFor(profile, lanes, issue.status),
   owner_id |-> 0,
   jira_key |-> key, jira_url |-> key, jira_connection_id |-> 0,
   jira_sync_enabled |-> FALSE, jira_project_key |-> "", jira_issue_type |-> "",
   jira_updated_at |-> issue.updated, jira_last_sync_at |-> t,
   order_index |-> NewOrder(ts, lane.id), version |-> 0, updated_at |-> t + 1]

app_changed(task) ==
  task.jira_last_sync_at # 0 /\ task.updated_at > task.jira_last_sync_at

jira_changed(task, issue) ==
  task.jira_last_sync_at # 0 /\ issue.updated > task.jira_last_sync_at

ConflictsAddedNoDuplicates(n, task, issue) ==
  IF app_changed(task) /\ jira_changed(task, issue) THEN 1 ELSE 0

\* What one matched record adds to the run's conflicts counter.
ConflictsAdded(n, task, issue) ==
  (IF n > 1 THEN 1 ELSE 0)
  + (IF app_changed(task) /\ jira_changed(task, issue) THEN 1 ELSE 0)

AppliesAlways(profile) == TRUE

\* if profile.conflict_policy == "jiraWins":
Applies(profile) == profile.conflict_policy = "jiraWins"

\* The remote snapshot written onto the matched task; flushed after t.
Snapshot(task, issue, key, lane, profile, t) ==
  [task EXCEPT !.title = issue.summary,
               !.priority = MapGet(profile.priority_map, issue.priority, "P2"),
               !.type = MapGet(profile.type_map, issue.issuetype, "Feature"),
               !.tags = issue.labels, !.due_date = issue.duedate,
               !.jira_url = key, !.jira_updated_at = issue.updated,
               !.lane_id = lane.id,
               !.state_key = IF task.lane_id # lane.id
                             THEN StateKeyFor(profile, lanes, issue.status) ELSE @,
               !.jira_last_sync_at = t, !.version = @ + 1, !.updated_at = t + 1]

LogEntry(level, kind, key, task, counts) ==
  [level |-> level, kind |-> kind, key |-> key, task |-> task, counts |-> counts]

Event(type, entity, counts) == [type |-> type, entity |-> entity, counts |-> counts]

\* SyncRun(board_id, profile_id, status="success", log=[]) and the started event
NewRun(p, started) ==
  [profile_id |-> p, status |-> "success", started_at |-> 0, finished_at |-> 0,
   error_message |-> <<>>, log |-> <<>>, audit |-> <<Event(started, Len(runs) + 1, <<>>)>>,
   reqs |-> <<>>, resps |-> <<>>, trace |-> <<>>,
   tasks0 |-> tasks, issues0 |-> issues, tasks1 |-> <<>>]

\* The board's tasks as the run left them (kept for the claims about a whole run).
Closed(row, ts) == [row EXCEPT !.tasks1 = ts]

SucceededLogReplaced(row, imported, updated, conflicts, t) ==
  [row EXCEPT !.status = "success", !.finished_at = t,
     !.log = <<LogEntry("info", "Done", 0, 0, <<imported, updated, conflicts>>)>>,
     !.audit = Append(@, Event("jira.sync.completed", 0, <<imported, updated, conflicts>>))]

\* lines 737-748
Succeeded(row, imported, updated, conflicts, t) ==
  [row EXCEPT !.status = "success", !.finished_at = t,
     !.log = Append(@, LogEntry("info", "Done", 0, 0, <<imported, updated, conflicts>>)),
     !.audit = Append(@, Event("jira.sync.completed", 0, <<imported, updated, conflicts>>))]

\* The exception a failing step raises: httpx's transport error (its message may
\* be empty), the client's JiraApiError, the routine's own RuntimeError.
Raised(err) ==
  CASE err = "error" -> [type |-> "ConnectError", message |-> ""]
    [] err = "404" -> [type |-> "JiraApiError", message |-> "Jira request failed"]
    [] OTHER -> [type |-> "RuntimeError", message |-> err]

\* f"{exc.__class__.__name__}: {message}", or the class name for an empty message
_error_text(exc) == IF exc.message # "" THEN <<exc.type, exc.message>> ELSE <<exc.type>>

FailedSilently(row, err, t) ==
  [row EXCEPT !.status = "error", !.error_message = _error_text(Raised(err)),
     !.finished_at = t, !.log = Append(@, LogEntry("error", err, 0, 0, <<>>))]

\* lines 749-763
Failed(row, err, t) ==
  [row EXCEPT !.status = "error", !.error_message = _error_text(Raised(err)),
     !.finished_at = t,
     !.log = Append(@, LogEntry("error", err, 0, 0, <<>>)),
     !.audit = Append(@, Event("jira.sync.error", 0, <<>>))]

\* The routine's locals before its first search request (lines 623-626).
Begun(r, p) ==
  [pc |-> "fetch", run |-> r, profile |-> p, next_token |-> 0,
   page |-> [issues |-> <<>>, nextPageToken |-> 0, isLast |-> FALSE], idx |-> 0,
   imported |-> 0, updated |-> 0, conflicts |-> 0]

\* The route's credential check, the SyncRun row and started event, and _run_sync
\* up to its first search request (started_at, lanes, the no-lanes error).
StartRun(op, started, p, profs) ==
  /\ proc.pc = "idle"
  /\ Len(runs) < MaxRuns
  /\ IF CredentialFails(connOk)
     THEN /\ lastCall' = Call(op, 0, <<>>, <<>>, <<>>, <<>>, "decrypt400")
          /\ UNCHANGED <<profiles, runs, proc>>
     ELSE LET row == [NewRun(p, started) EXCEPT !.started_at = now] IN
          /\ profiles' = profs
          /\ lastCall' = Call(op, 0, <<>>, <<>>, <<>>, <<started>>, "ok")
          /\ IF NoLanes(lanes)
             THEN /\ runs' = Append(runs, Closed(Failed(row, "Board has no lanes", now), tasks))
                  /\ proc' = Idle
             ELSE /\ runs' = Append(runs, row)
                  /\ proc' = Begun(Len(runs) + 1, p)
  /\ UNCHANGED <<tasks, issues, now, remote, connOk, commentVars, lanes, sessions>>

\* POST /jira/import: import_issues_to_board creates the profile and the run.
import_issues_to_board(conflict_policy, status_to_state_key) ==
  StartRun("import", "jira.import.started", Len(profiles) + 1,
           Append(profiles, [status_to_state_key |-> status_to_state_key,
                             priority_map |-> PriorityMap, type_map |-> TypeMap,
                             conflict_policy |-> conflict_policy]))

\* POST /jira/sync-now: sync_now runs a stored profile again.
sync_now(p) ==
  /\ p \in 1..Len(profiles)
  /\ StartRun("sync_now", "jira.sync.started", p, profiles)

\* One search request of the loop (line 628) and the empty-page exit (630-631);
\* a remote without the /search/jql endpoint answers 404.
FetchPage(o) ==
  /\ proc.pc = "fetch"
  /\ LET r == proc.run
         answer == IF remote.paging = "legacy" THEN "404" ELSE o
         row == [runs[r] EXCEPT !.reqs = Append(@, proc.next_token),
                                !.resps = Append(@, answer)]
         data == SearchPage(proc.next_token)
     IN IF answer # "ok"
        THEN /\ runs' = [runs EXCEPT ![r] = Closed(Failed(row, answer, now), tasks)]
             /\ proc' = Idle
        ELSE IF Len(data.issues) = 0
        THEN /\ runs' = [runs EXCEPT ![r] =
                Closed(Succeeded(row, proc.imported, proc.updated, proc.conflicts, now), tasks)]
             /\ proc' = Idle
        ELSE /\ runs' = [runs EXCEPT ![r] = row]
             /\ proc' = [proc EXCEPT !.pc = "record", !.page = data, !.idx = 1]
  /\ UNCHANGED <<tasks, issues, lastCall, now, remote, connOk, commentVars, lanes, profiles,
               sessions>>

\* One record of the page (lines 632-730) and, after the page's last record, the
\* page-end test (732-735) and the successful end of the run (737-748).
ProcessRecord ==
  /\ proc.pc = "record"
  /\ LET r == proc.run
         profile == profiles[proc.profile]
         data == proc.page
         key == data.issues[proc.idx]
         issue == issues[key]
         lane == LaneFor(profile, lanes, issue.status)
         matches == Matches(tasks, key)
         n == Cardinality(matches)
         existing == IF n = 0 THEN Len(tasks) + 1 ELSE Canonical(tasks, matches)
         applies == n > 0 /\ Applies(profile)
         tasks1 == IF n = 0
                   THEN Append(tasks, ImportedTask(issue, key, lane, profile,
                                                   SeenByQuery(tasks), now))
                   ELSE IF applies
                   THEN [tasks EXCEPT ![existing] = Snapshot(@, issue, key, lane, profile, now)]
                   ELSE tasks
         conflict == n > 0 /\ app_changed(tasks[existing]) /\ jira_changed(tasks[existing], issue)
         log1 == (IF n > 1 THEN <<LogEntry("warn", "Duplicate", key, existing, <<>>)>> ELSE <<>>)
                 \o (IF n = 0 THEN <<LogEntry("info", "Imported", key, existing, <<>>)>> ELSE <<>>)
                 \o (IF conflict THEN <<LogEntry("warn", "Conflict", key, 0, <<>>)>> ELSE <<>>)
                 \o (IF applies THEN <<LogEntry("info", "Updated", key, existing, <<>>)>> ELSE <<>>)
         entry == [key |-> key, n |-> n, task |-> existing,
                   pre |-> IF n = 0 THEN tasks1[existing] ELSE tasks[existing],
                   post |-> tasks1[existing], issue |-> issue,
                   policy |-> profile.conflict_policy,
                   lane_orders |-> {tasks[u].order_index :
                                      u \in {v \in 1..Len(tasks) : tasks[v].lane_id = lane.id}}]
         pr == [proc EXCEPT !.imported = @ + (IF n = 0 THEN 1 ELSE 0),
                            !.updated = @ + (IF applies THEN 1 ELSE 0),
                            !.conflicts = @ + (IF n = 0 THEN 0
                                               ELSE ConflictsAdded(n, tasks[existing], issue))]
         row == [runs[r] EXCEPT
                   !.log = @ \o log1,
                   !.audit = IF n = 0 THEN Append(@, Event("task.imported", existing, <<>>))
                             ELSE @,
                   !.trace = Append(@, entry)]
         t == IF n = 0 \/ applies THEN now + 1 ELSE now
     IN /\ tasks' = tasks1
        /\ now' = t
        /\ IF proc.idx < Len(data.issues)
           THEN /\ runs' = [runs EXCEPT ![r] = row]
                /\ proc' = [pr EXCEPT !.idx = @ + 1]
           ELSE IF is_last(data)
           THEN /\ runs' = [runs EXCEPT ![r] =
                   Closed(Succeeded(row, pr.imported, pr.updated, pr.conflicts, t), tasks1)]
                /\ proc' = Idle
           ELSE /\ runs' = [runs EXCEPT ![r] = row]
                /\ proc' = [pr EXCEPT !.pc = "fetch", !.next_token = data.nextPageToken]
  /\ UNCHANGED <<issues, lastCall, remote, connOk, commentVars, lanes, profiles, sessions>>

\* The record is edited in the remote tracker, which stamps its updated time.
RemoteEdit(key) ==
  /\ proc.pc = "idle"
  /\ Cardinality({k \in 1..Len(issues) : issues[k].summary = "edited"}) < MaxRemoteEdits
  /\ issues[key].summary # "edited"
  /\ issues' = [issues EXCEPT ![key] = RemoteIssue("edited", "Done", now)]
  /\ UNCHANGED <<tasks, lastCall, now, remote, connOk, commentVars, runVars>>

InitRun ==
  /\ tasks = <<LocalTask(1)>>
  /\ \E n \in 0..MaxIssues : issues = [k \in 1..n |-> RemoteIssue("remote", "To Do", 0)]
  /\ lastCall = NoCall
  /\ now = 1
  /\ remote \in [rejectPriority : {FALSE}, rejectAssignee : {FALSE},
                 paging : {"token", "legacy"}]
  /\ connOk \in BOOLEAN
  /\ comments = <<>> /\ rcomments = <<>> /\ seen = [t \in 1..MaxTasks |-> {}]
  /\ lanes = BoardLanes /\ profiles = <<>> /\ runs = <<>> /\ proc = Idle
  /\ sessions = NoSessions

Import == \E policy \in Policies, m \in StatusMaps : import_issues_to_board(policy, m)

SyncNow == \E p \in 1..MaxRuns : sync_now(p)

Fetch == \E o \in FetchOutcomes : FetchPage(o)

RemoteEdits == \E key \in 1..Len(issues) : RemoteEdit(key)

LinkBetweenRuns ==
  /\ proc.pc = "idle"
  /\ now < MaxRunTime
  /\ \E tid \in {t \in 1..Len(tasks) : tasks[t].jira_key = 0}, key \in 1..Len(issues) :
       link_task_to_jira_issue(tid, key)

NextRun == Import \/ SyncNow \/ Fetch \/ ProcessRecord \/ RemoteEdits \/ LinkBetweenRuns

SpecRun == InitRun /\ [][NextRun]_vars

\* ------------------------------------------------------- runs on other boards
\* Boards by their lanes in position order: none; backlog and done; no lane of
\* type backlog; the backlog lane second and no done lane; two lanes of one state.
Boards ==
  {<<>>,
   BoardLanes,
   <<[id |-> 1, state_key |-> "todo", type |-> "active", name |-> "To do"],
     [id |-> 2, state_key |-> "done", type |-> "done", name |-> "Done"]>>,
   <<[id |-> 1, state_key |-> "doing", type |-> "active", name |-> "Doing"],
     [id |-> 2, state_key |-> "backlog", type |-> "backlog", name |-> "Backlog"]>>,
   <<[id |-> 1, state_key |-> "backlog", type |-> "backlog", name |-> "Backlog"],
     [id |-> 2, state_key |-> "done", type |-> "done", name |-> "Done"],
     [id |-> 3, state_key |-> "done", type |-> "done", name |-> "Archive"]>>}

\* The order indices the board's own task may have before any run.
OrderIndices == {0, 2}

InitBoards ==
  /\ lanes \in Boards
  /\ \/ tasks = <<>>
     \/ \E o \in OrderIndices : Len(lanes) > 0 /\ tasks = <<[LocalTask(1) EXCEPT !.order_index = o]>>
  /\ \E n \in 1..PageSize : \E st \in [1..n -> Statuses] :
       issues = [k \in 1..n |-> RemoteIssue("remote", st[k], 0)]
  /\ lastCall = NoCall
  /\ now = 1
  /\ remote = [rejectPriority |-> FALSE, rejectAssignee |-> FALSE, paging |-> "token"]
  /\ connOk = TRUE
  /\ comments = <<>> /\ rcomments = <<>> /\ seen = [t \in 1..MaxTasks |-> {}]
  /\ profiles = <<>> /\ runs = <<>> /\ proc = Idle
  /\ sessions = NoSessions

NextBoards == Import \/ SyncNow \/ Fetch \/ ProcessRecord

SpecBoards == InitBoards /\ [][NextBoards]_vars

\* ------------------------------------------------ a credential that is lost
\* The application's secret key changes: the stored token no longer decrypts.
CredentialLost ==
  /\ proc.pc = "idle"
  /\ connOk
  /\ connOk' = FALSE
  /\ UNCHANGED <<tasks, issues, lastCall, now, remote, commentVars, runVars>>

InitCredential ==
  /\ tasks = [i \in 1..MaxTasks |-> LocalTask(i)]
  /\ issues = <<RemoteIssue("remote", "To Do", 0)>>
  /\ lastCall = NoCall
  /\ now = 1
  /\ remote = [rejectPriority |-> FALSE, rejectAssignee |-> FALSE, paging |-> "token"]
  /\ connOk = TRUE
  /\ comments = <<>> /\ rcomments = <<>> /\ seen = [t \in 1..MaxTasks |-> {}]
  /\ lanes = BoardLanes /\ profiles = <<>> /\ runs = <<>> /\ proc = Idle
  /\ sessions = NoSessions

CreateBetweenRuns == proc.pc = "idle" /\ CreateAndLink

ImportRemoteWins ==
  import_issues_to_board("jiraWins", CHOOSE m \in StatusMaps : m["Done"] = "done")

NextCredential ==
  CreateBetweenRuns \/ ImportRemoteWins \/ SyncNow \/ Fetch \/ ProcessRecord
    \/ CredentialLost

SpecCredential == InitCredential /\ [][NextCredential]_vars

\* ------------------------------------------------ runs in concurrent requests
\* Each request has a database session of its own (deps.py get_db; the auto-sync
\* loop opens one too) and commits once, after the run (routers/jira.py line 248).
\* A session reads the committed rows and its own uncommitted ones. The board
\* starts empty and a session serves one run, so a row a run matches was
\* committed by a run that has ended.
Visible(s) ==
  [t \in 1..Len(tasks) |->
     IF \E c \in sessions[s].changed : c.id = t
     THEN (CHOOSE c \in sessions[s].changed : c.id = t).row ELSE tasks[t]]
    \o sessions[s].new

existing_is_None_always(matches) == TRUE

\* if existing is None: (line 667)
existing_is_None(matches) == matches = {}

\* Whether no request, this one included, holds a task bearing the key yet,
\* committed or not.
NobodyStored(key) ==
  /\ Matches(tasks, key) = {}
  /\ \A u \in 1..MaxSessions : Matches(sessions[u].new, key) = {}

\* The session after one record: the next record of the page, the next page, or
\* the successful end of the run (lines 732-748).
Advance(ss, t) ==
  IF ss.idx < Len(ss.page.issues) THEN [ss EXCEPT !.pc = "lookup", !.idx = @ + 1]
  ELSE IF is_last(ss.page)
  THEN [ss EXCEPT !.pc = "commit",
                  !.row = Succeeded(@, ss.imported, ss.updated, ss.conflicts, t)]
  ELSE [ss EXCEPT !.pc = "fetch", !.next_token = ss.page.nextPageToken]

\* The session with the row of task id written (an UPDATE it has not committed).
Written(ss, id, row) ==
  IF id <= Len(tasks)
  THEN [ss EXCEPT !.changed = {c \in @ : c.id # id} \cup {[id |-> id, row |-> row]}]
  ELSE [ss EXCEPT !.new[id - Len(tasks)] = row]

\* sync_now in the request's session: the SyncRun row, the started event and
\* _run_sync up to its first search request. Nothing tests for a run in progress.
SessionBegin(s, p) ==
  /\ sessions[s].pc = "idle"
  /\ p \in 1..Len(profiles)
  /\ ~CredentialFails(connOk)
  /\ BacklogLane(lanes) # 0
  /\ sessions' = [sessions EXCEPT ![s] =
       [@ EXCEPT !.pc = "fetch",
                 !.row = [NewRun(p, "jira.sync.started") EXCEPT !.started_at = now]]]
  /\ UNCHANGED <<linkVars, commentVars, lanes, profiles, runs, proc>>

\* One search request (line 628) and the empty-page exit (630-631).
SessionFetch(s, o) ==
  /\ sessions[s].pc = "fetch"
  /\ LET ss == sessions[s]
         row == [ss.row EXCEPT !.reqs = Append(@, ss.next_token), !.resps = Append(@, o)]
         data == SearchPage(ss.next_token)
     IN sessions' = [sessions EXCEPT ![s] =
          IF o # "ok" THEN [ss EXCEPT !.pc = "commit", !.row = Failed(row, o, now)]
          ELSE IF Len(data.issues) = 0
          THEN [ss EXCEPT !.pc = "commit",
                  !.row = Succeeded(row, ss.imported, ss.updated, ss.conflicts, now)]
          ELSE [ss EXCEPT !.pc = "lookup", !.row = row, !.page = data, !.idx = 1]]
  /\ UNCHANGED <<linkVars, commentVars, lanes, profiles, runs, proc>>

\* The lookup by (board, key) of one record (lines 656-665) and, when a task
\* matched, the rest of the record (709-730); no await lies between the two.
SessionLookup(s) ==
  /\ sessions[s].pc = "lookup"
  /\ LET ss == sessions[s]
         profile == profiles[ss.row.profile_id]
         key == ss.page.issues[ss.idx]
         issue == issues[key]
         lane == LaneFor(profile, lanes, issue.status)
         vis == Visible(s)
         matches == Matches(vis, key)
         n == Cardinality(matches)
         existing == Canonical(vis, matches)
         applies == Applies(profile)
         conflict == app_changed(vis[existing]) /\ jira_changed(vis[existing], issue)
         post == IF applies THEN Snapshot(vis[existing], issue, key, lane, profile, now)
                 ELSE vis[existing]
         log1 == (IF n > 1 THEN <<LogEntry("warn", "Duplicate", key, existing, <<>>)>> ELSE <<>>)
                 \o (IF conflict THEN <<LogEntry("warn", "Conflict", key, 0, <<>>)>> ELSE <<>>)
                 \o (IF applies THEN <<LogEntry("info", "Updated", key, existing, <<>>)>> ELSE <<>>)
         entry == [key |-> key, n |-> n, task |-> existing, pre |-> vis[existing],
                   post |-> post, issue |-> issue, policy |-> profile.conflict_policy,
                   alone |-> FALSE]
         t == IF applies THEN now + 1 ELSE now
         s1 == [ss EXCEPT !.updated = @ + (IF applies THEN 1 ELSE 0),
                          !.conflicts = @ + ConflictsAdded(n, vis[existing], issue),
                          !.row = [@ EXCEPT !.log = @ \o log1, !.trace = Append(@, entry)]]
     IN IF existing_is_None(matches)
        THEN /\ sessions' = [sessions EXCEPT ![s] =
                  [ss EXCEPT !.pc = "insert", !.found = n, !.alone = NobodyStored(key)]]
             /\ UNCHANGED now
        ELSE /\ sessions' = [sessions EXCEPT ![s] =
                  Advance(IF applies THEN Written(s1, existing, post) ELSE s1, t)]
             /\ now' = t
  /\ UNCHANGED <<tasks, issues, lastCall, remote, connOk, commentVars, lanes, profiles,
                 runs, proc>>

\* The record that matched no task, after the lane's highest order was read
\* (lines 669-707): the new task is added to the session, not yet committed.
SessionInsert(s) ==
  /\ sessions[s].pc = "insert"
  /\ LET ss == sessions[s]
         profile == profiles[ss.row.profile_id]
         key == ss.page.issues[ss.idx]
         issue == issues[key]
         lane == LaneFor(profile, lanes, issue.status)
         vis == Visible(s)
         task == ImportedTask(issue, key, lane, profile, vis, now)
         entry == [key |-> key, n |-> ss.found, task |-> Len(vis) + 1, pre |-> task,
                   post |-> task, issue |-> issue, policy |-> profile.conflict_policy,
                   alone |-> ss.alone]
         s1 == [ss EXCEPT !.new = Append(@, task), !.imported = @ + 1,
                  !.row = [@ EXCEPT
                     !.log = Append(@, LogEntry("info", "Imported", key, Len(vis) + 1, <<>>)),
                     !.audit = Append(@, Event("task.imported", Len(vis) + 1, <<>>)),
                     !.trace = Append(@, entry)]]
     IN sessions' = [sessions EXCEPT ![s] = Advance(s1, now + 1)]
  /\ now' = now + 1
  /\ UNCHANGED <<tasks, issues, lastCall, remote, connOk, commentVars, lanes, profiles,
                 runs, proc>>

\* await db.commit() of the request: the session's rows reach the store.
SessionCommit(s) ==
  /\ sessions[s].pc = "commit"
  /\ LET ss == sessions[s]
         stored == Visible(s)
     IN /\ tasks' = stored
        /\ runs' = Append(runs, Closed(ss.row, stored))
        /\ sessions' = [sessions EXCEPT ![s] =
             [ss EXCEPT !.pc = "done", !.changed = {}, !.new = <<>>]]
  /\ UNCHANGED <<issues, lastCall, now, remote, connOk, commentVars, lanes, profiles, proc>>

InitConcurrent ==
  /\ tasks = <<>>
  /\ \E n \in 1..MaxIssues : issues = [k \in 1..n |-> RemoteIssue("remote", "To Do", 0)]
  /\ lastCall = NoCall
  /\ now = 1
  /\ remote = [rejectPriority |-> FALSE, rejectAssignee |-> FALSE, paging |-> "token"]
  /\ connOk = TRUE
  /\ comments = <<>> /\ rcomments = <<>> /\ seen = [t \in 1..MaxTasks |-> {}]
  /\ lanes = BoardLanes /\ runs = <<>> /\ proc = Idle
  /\ \E policy \in Policies :
       profiles = <<[status_to_state_key |-> CHOOSE m \in StatusMaps : m["Done"] = "done",
                     priority_map |-> PriorityMap, type_map |-> TypeMap,
                     conflict_policy |-> policy]>>
  /\ sessions = NoSessions

Begins == \E s \in 1..MaxSessions : SessionBegin(s, 1)

Fetches == \E s \in 1..MaxSessions, o \in FetchOutcomes : SessionFetch(s, o)

Lookups == \E s \in 1..MaxSessions : SessionLookup(s)

Inserts == \E s \in 1..MaxSessions : SessionInsert(s)

Commits == \E s \in 1..MaxSessions : SessionCommit(s)

NextConcurrent == Begins \/ Fetches \/ Lookups \/ Inserts \/ Commits

SpecConcurrent == InitConcurrent /\ [][NextConcurrent]_vars

\* ------------------------------------------- the bounded-query search fallback
\* A query is its text as a sequence of tokens: the filter, then the ORDER BY
\* clause when there is one.
Filters == {<<"project = DEMO">>, <<"assignee = me", "AND", "status = Open">>,
            <<"labels = task-daddy">>}
Orders == {<<>>, <<"ORDER BY", "updated DESC">>, <<"ORDER BY", "key ASC">>}
SearchAnswers == {"ok", "unbounded400", "400", "500"}

\* Where the ORDER BY clause of a query starts (past its end when it has none).
OrderAt(jql) ==
  LET S == {i \in 1..Len(jql) : jql[i] = "ORDER BY"}
  IN IF S = {} THEN Len(jql) + 1 ELSE SetMin(S)

_bounded_jql_order_lost(jql) ==
  <<"(">> \o SubSeq(jql, 1, OrderAt(jql) - 1) \o <<")", "AND", "updated >= -30d">>

\* "(<filter>) AND updated >= -30d" with the query's ORDER BY clause kept last
_bounded_jql(jql) ==
  <<"(">> \o SubSeq(jql, 1, OrderAt(jql) - 1) \o <<")", "AND", "updated >= -30d">>
    \o SubSeq(jql, OrderAt(jql), Len(jql))

\* The page the remote hands back for a query and a page token.
SearchData(jql, token) == [jql |-> jql, token |-> token]

\* One search with the fallback: the query as given; when the remote refuses it
\* as unbounded (400), once more with the bounded query. a1, a2: the remote's
\* answers to the first and to the second request.
_jira_search_with_bound_fallback(filter, order, next_page_token, a1, a2) ==
  LET jql == filter \o order
      bounded == _bounded_jql(jql)
      given == [filter |-> filter, order |-> order, token |-> next_page_token]
  IN
  /\ lastCall' =
       IF a1 = "ok"
       THEN Call("search", 0, given, <<jql>>, <<a1>>, <<>>,
                 [data |-> SearchData(jql, next_page_token),
                  used_bounded |-> FALSE, effective_jql |-> jql])
       ELSE IF a1 # "unbounded400"
       THEN Call("search", 0, given, <<jql>>, <<a1>>, <<>>,
                 [data |-> <<>>, used_bounded |-> FALSE, effective_jql |-> <<"raised">>])
       ELSE IF a2 = "ok"
       THEN Call("search", 0, given, <<jql, bounded>>, <<a1, a2>>, <<>>,
                 [data |-> SearchData(bounded, next_page_token),
                  used_bounded |-> TRUE, effective_jql |-> bounded])
       ELSE Call("search", 0, given, <<jql, bounded>>, <<a1, a2>>, <<>>,
                 [data |-> <<>>, used_bounded |-> TRUE, effective_jql |-> <<"raised">>])
  /\ UNCHANGED <<tasks, issues, now, remote, connOk, commentVars, runVars>>

InitSearch ==
  /\ tasks = <<LocalTask(1)>>
  /\ issues = <<RemoteIssue("remote", "To Do", 0)>>
  /\ lastCall = NoCall
  /\ now = 1
  /\ remote = [rejectPriority |-> FALSE, rejectAssignee |-> FALSE, paging |-> "token"]
  /\ connOk = TRUE
  /\ comments = <<>> /\ rcomments = <<>> /\ seen = [t \in 1..MaxTasks |-> {}]
  /\ lanes = BoardLanes /\ profiles = <<>> /\ runs = <<>> /\ proc = Idle
  /\ sessions = NoSessions

Search ==
  \E filter \in Filters, order \in Orders, token \in {0, PageSize + 1} :
  \E a1 \in SearchAnswers :
  \E a2 \in (IF a1 = "unbounded400" THEN SearchAnswers \ {"400"} ELSE {"ok"}) :
    _jira_search_with_bound_fallback(filter, order, token, a1, a2)

NextSearch == Search

SpecSearch == InitSearch /\ [][NextSearch]_vars

\* ------------------------------------------------------- claims C1, C2, C3, C8
IsCreateReq(r) ==
  r \in {"create:priority+assignee", "create:priority", "create:assignee", "create:plain"}

CreateIdx(c) == {i \in 1..Len(c.reqs) : IsCreateReq(c.reqs[i])}

\* The records that bore the task's marker before the last call.
HitsBefore(c) == {k \in MarkerHits(c.task, issues) : k <= c.issuesBefore}

\* C1: create-and-link on a task whose external key is set is a no-op: no request
\* is sent, the task row (version included) is unchanged, no audit event is written,
\* no record is created and the task is returned; and a call that returned leaves the
\* key set, so the call after it is that no-op and creates no second record.
C1_LinkedCreateIsNoOp ==
  lastCall.op = "create" =>
    /\ lastCall.pre.jira_key # 0 =>
         /\ lastCall.reqs = <<>>
         /\ lastCall.audit = <<>>
         /\ lastCall.result = "ok"
         /\ tasks[lastCall.task] = lastCall.pre
         /\ Len(issues) = lastCall.issuesBefore
    /\ lastCall.result = "ok" => tasks[lastCall.task].jira_key # 0

C1_Witness ==
  /\ lastCall.op = "create"
  /\ lastCall.pre.jira_key # 0
  /\ lastCall.pre.jira_project_key = "PRJ"
  /\ Len(issues) = 1

\* C2: after any sequence of create-and-link calls (failed marker searches, failed
\* creates, key-less answers and uncommitted links included) the remote holds at
\* most one record bearing a task's idempotency marker.
C2_AtMostOneMarkedRecord ==
  \A t \in 1..Len(tasks) : Cardinality(MarkerHits(t, issues)) <= 1

\* C3: when the task has no external key and the remote holds a record with the
\* task's marker, create-and-link sends no create request, links the task to that
\* record (key, URL, connection), adds 1 to the version and writes a relinked event.
C3_RelinksToMarkedRecord ==
  (/\ lastCall.op = "create"
   /\ lastCall.pre.jira_key = 0
   /\ connOk
   /\ HitsBefore(lastCall) # {}) =>
    /\ CreateIdx(lastCall) = {}
    /\ tasks[lastCall.task].jira_key \in HitsBefore(lastCall)
    /\ tasks[lastCall.task].jira_url = tasks[lastCall.task].jira_key
    /\ tasks[lastCall.task].jira_connection_id = 1
    /\ tasks[lastCall.task].version = lastCall.pre.version + 1
    /\ lastCall.audit = <<"task.jira.relinked">>

\* C8: when the remote's only refusals are 400s for a carried priority or assignee
\* (and set-assignee does not break the connection), the create requests of a call
\* are sent in the order (priority, assignee if resolved), (no priority, same
\* assignee), (neither); every request but the last was refused, the last was
\* accepted; at most three are sent; exactly one record is created and the task is
\* linked to it.
C8_FallbackChain ==
  LET c == lastCall
      idx == CreateIdx(c)
      n == Cardinality(idx)
      first == SetMin(idx)
      req(i) == c.reqs[first + i - 1]
      resp(i) == c.resps[first + i - 1]
      withAssignee == req(1) = "create:priority+assignee"
  IN  (/\ c.op = "create"
       /\ idx # {}
       /\ \A i \in idx : c.resps[i] \in {"ok", "400"}
       /\ \A i \in 1..Len(c.reqs) : c.reqs[i] = "assign" => c.resps[i] # "net") =>
        /\ n <= 3
        /\ idx = first..(first + n - 1)
        /\ req(1) \in {"create:priority+assignee", "create:priority"}
        /\ n >= 2 => req(2) = (IF withAssignee THEN "create:assignee" ELSE "create:plain")
        /\ n >= 3 => req(3) = "create:plain"
        /\ \A i \in 1..(n - 1) : resp(i) = "400"
        /\ resp(n) = "ok"
        /\ Len(issues) = c.issuesBefore + 1
        /\ tasks[c.task].jira_key = Len(issues)
        /\ id_label(c.task) \in issues[Len(issues)].labels

C8_Witness ==
  /\ lastCall.op = "create"
  /\ Cardinality(CreateIdx(lastCall)) = 3
  /\ lastCall.result = "ok"
  /\ tasks[lastCall.task].jira_key = Len(issues)
  /\ remote.rejectPriority /\ remote.rejectAssignee

\* ------------------------------------------------------------ claims C4, C5
\* C4: after any sequence of comment imports (pull or sync), whatever the remote
\* lists (a comment id repeated within one fetch included), a task has at most one
\* comment with source "jira" per remote comment id; and an import that lists the
\* ids the task's previous import listed inserts no comment.
C4_ImportDedupe ==
  /\ \A t \in 1..Len(tasks) : \A r \in 1..Len(rcomments) :
       Cardinality({i \in 1..Len(comments) :
          /\ comments[i].task_id = t
          /\ comments[i].source = "jira"
          /\ comments[i].source_id = r}) <= 1
  /\ (/\ lastCall.op \in {"pull", "sync"}
      /\ lastCall.result = "ok"
      /\ lastCall.listed # {}
      /\ lastCall.listed = lastCall.prev) => lastCall.inserted = 0

C4_Witness ==
  /\ lastCall.op \in {"pull", "sync"}
  /\ lastCall.result = "ok"
  /\ lastCall.listed # {}
  /\ lastCall.listed = lastCall.prev
  /\ Len(lastCall.resps) >= 2 /\ lastCall.resps[2] = "dup"
  /\ \E i \in 1..Len(comments) :
       comments[i].task_id = lastCall.task /\ comments[i].source = "jira"

\* C5: after any sequence of exports every local-origin comment has been accepted
\* by the remote's add-comment at most once.
C5_ExportedAtMostOnce ==
  \A c \in 1..Len(comments) :
    Cardinality({r \in 1..Len(rcomments) : rcomments[r].by = c}) <= 1

\* ------------------------------------------------------ claims C6, C7, C9, C10
\* C6: no board ever has two tasks with the same non-null external key.
C6_UniqueKeyPerBoard ==
  \A t, u \in 1..Len(tasks) :
    (t # u /\ tasks[t].jira_key # 0) => tasks[t].jira_key # tasks[u].jira_key

\* A run that has ended, and one that ended in success.
Ended(r) == runs[r].finished_at # 0
EndedInSuccess(r) == Ended(r) /\ runs[r].status = "success"

\* The pages of a result set of n records, and the request that asks for page i.
NPages(n) == IF n = 0 THEN 1 ELSE (n + PageSize - 1) \div PageSize
PageRequest(i) == IF i = 1 THEN 0 ELSE (i - 1) * PageSize + 1

\* C7: whatever way the remote pages its result set, a run whose requests the
\* transport delivered asks for each of the N pages exactly once, in order,
\* processes every record of the result set, and ends in a terminal status.
C7_AllPagesOnceInOrder ==
  \A r \in 1..Len(runs) :
    (Ended(r) /\ \A i \in 1..Len(runs[r].resps) : runs[r].resps[i] # "error") =>
      /\ runs[r].status \in {"success", "error"}
      /\ runs[r].reqs = [i \in 1..NPages(Len(issues)) |-> PageRequest(i)]
      /\ [i \in 1..Len(runs[r].trace) |-> runs[r].trace[i].key]
           = [i \in 1..Len(issues) |-> i]

\* The conflict count a run reports: in its final log line, in its completed event.
ReportedCounts(r) == Last(runs[r].log).counts
CompletedCounts(r) == Last(runs[r].audit).counts

\* The processed records whose matched task had a last-sync time with both the
\* task's updated-at and the record's updated time after it.
TimestampConflicts(tr) ==
  {i \in 1..Len(tr) :
     /\ tr[i].n > 0
     /\ tr[i].pre.jira_last_sync_at # 0
     /\ tr[i].pre.updated_at > tr[i].pre.jira_last_sync_at
     /\ tr[i].issue.updated > tr[i].pre.jira_last_sync_at}

\* The processed records that matched more than one task of the board.
DuplicateMappings(tr) == {i \in 1..Len(tr) : tr[i].n > 1}

\* C9 as stated: the conflict count of a successful run is the number of processed
\* records in timestamp conflict, every other record adding 0.
C9_CountsTimestampConflictsOnly ==
  \A r \in 1..Len(runs) :
    EndedInSuccess(r) =>
      /\ ReportedCounts(r)[3] = Cardinality(TimestampConflicts(runs[r].trace))
      /\ CompletedCounts(r)[3] = Cardinality(TimestampConflicts(runs[r].trace))

\* C9 amended: the conflict count of a successful run, in the final summary line
\* and in the completed event, is the number of processed records in timestamp
\* conflict plus the number of processed records that matched more than one task;
\* a record that is both adds 2, a record that is neither adds 0.
C9_ConflictCount ==
  \A r \in 1..Len(runs) :
    EndedInSuccess(r) =>
      /\ ReportedCounts(r)[3] = Cardinality(TimestampConflicts(runs[r].trace))
                                + Cardinality(DuplicateMappings(runs[r].trace))
      /\ CompletedCounts(r)[3] = ReportedCounts(r)[3]

C9_Witness ==
  \E r \in 1..Len(runs) :
    /\ EndedInSuccess(r)
    /\ TimestampConflicts(runs[r].trace) # {}
    /\ DuplicateMappings(runs[r].trace) # {}
    /\ TimestampConflicts(runs[r].trace) # DuplicateMappings(runs[r].trace)
    /\ Len(runs[r].trace) > Cardinality(TimestampConflicts(runs[r].trace)
                                        \cup DuplicateMappings(runs[r].trace))
    /\ ReportedCounts(r)[3] >= 2

\* The matched records of a run, and the task row the snapshot of a record gives.
Matched(tr) == {i \in 1..Len(tr) : tr[i].n > 0}

SnapshotApplied(e, r) ==
  LET profile == profiles[runs[r].profile_id]
      lane == LaneFor(profile, lanes, e.issue.status)
  IN /\ e.post.title = e.issue.summary
     /\ e.post.priority = MapGet(profile.priority_map, e.issue.priority, "P2")
     /\ e.post.type = MapGet(profile.type_map, e.issue.issuetype, "Feature")
     /\ e.post.tags = e.issue.labels
     /\ e.post.due_date = e.issue.duedate
     /\ e.post.jira_url = e.key
     /\ e.post.jira_updated_at = e.issue.updated
     /\ e.post.lane_id = lane.id
     /\ e.post.state_key = (IF e.pre.lane_id # lane.id THEN lane.state_key
                            ELSE e.pre.state_key)
     /\ e.post.version = e.pre.version + 1
     /\ e.post.jira_last_sync_at >= runs[r].started_at
     /\ e.post.jira_last_sync_at > e.pre.jira_last_sync_at

Delivered(r) == Ended(r) /\ \A i \in 1..Len(runs[r].resps) : runs[r].resps[i] # "error"

\* The keys borne by the tasks of a board.
KeysOf(ts) == {ts[t].jira_key : t \in 1..Len(ts)} \ {0}

\* C11: a run over n records on a board where no task bears any of their keys ends
\* in success with imported = n, updated = 0, conflicts = 0 and n more tasks; the
\* run of the same profile that follows it with nothing changed in between ends
\* with imported = 0 and updated = n and creates no task.
C11_FirstRunThenRepeat ==
  \A r \in 1..Len(runs) :
    LET n == Len(runs[r].issues0) IN
    (Delivered(r) /\ KeysOf(runs[r].tasks0) \cap (1..n) = {}) =>
      /\ runs[r].status = "success"
      /\ ReportedCounts(r) = <<n, 0, 0>>
      /\ Len(runs[r].tasks1) = Len(runs[r].tasks0) + n
      /\ \A q \in 1..Len(runs) :
           (/\ q = r + 1
            /\ Delivered(q)
            /\ runs[q].profile_id = runs[r].profile_id
            /\ runs[q].tasks0 = runs[r].tasks1
            /\ runs[q].issues0 = runs[r].issues0) =>
             /\ ReportedCounts(q)[1] = 0
             /\ ReportedCounts(q)[2] = n
             /\ Len(runs[q].tasks1) = Len(runs[q].tasks0)

\* --------------------------------------------------------------- claim C12
\* The run has processed every record of the result set it was started on.
ProcessedAll(r) ==
  [i \in 1..Len(runs[r].trace) |-> runs[r].trace[i].key]
    = [i \in 1..Len(runs[r].issues0) |-> i]

\* A run that has not ended is not recorded as success, and success is recorded
\* only on a run that went through all pages without an exception.
SuccessOnlyWhenDone ==
  \A r \in 1..Len(runs) :
    runs[r].status = "success" => (Ended(r) /\ ProcessedAll(r))

\* Once a run has ended its status never changes.
TerminalStatusKept ==
  \A r \in 1..Len(runs) : Ended(r) => runs'[r].status = runs[r].status

\* C12: every run goes created -> running -> success or error: success is recorded
\* only on a run whose routine processed all pages without an exception, never on
\* a run that has started but not finished (that a status of success or error
\* never changes afterwards is C12_TerminalStatusKept below).
C12_RunLifecycle == SuccessOnlyWhenDone

\* The last part of C12 on its own, as an action property.
C12_TerminalStatusKept == [][TerminalStatusKept]_vars

\* --------------------------------------------------------------- claim C13
\* The run's routine raised: it found no lane, or a search request failed.
RaisedIn(r) ==
  \/ Ended(r) /\ runs[r].resps = <<>>
  \/ runs[r].resps # <<>> /\ Last(runs[r].resps) # "ok"

LinesOf(r, level) == {i \in 1..Len(runs[r].log) : runs[r].log[i].level = level}
EventsOf(r, type) == {i \in 1..Len(runs[r].audit) : runs[r].audit[i].type = type}

\* The records of the pages that were answered before the failing request.
RecordsBefore(r) ==
  LET answered == (IF runs[r].reqs = <<>> THEN 0 ELSE Len(runs[r].reqs) - 1) * PageSize
  IN IF answered < Len(runs[r].issues0) THEN answered ELSE Len(runs[r].issues0)

\* C13: a run one of whose steps raised ends with status error, an error message
\* made of the exception's type and message, and a finish time; it has one error
\* log line (its last), one error audit event and no completed event, has
\* processed no record after the failure, and the tasks created or updated from
\* its earlier records are kept.
C13_FailedRun ==
  \A r \in 1..Len(runs) :
    /\ (Ended(r) /\ runs[r].status = "error") <=> RaisedIn(r)
    /\ RaisedIn(r) =>
         /\ runs[r].status = "error"
         /\ runs[r].finished_at >= runs[r].started_at /\ runs[r].finished_at # 0
         /\ Len(runs[r].error_message) \in {1, 2}
         /\ runs[r].error_message[1] \in {"ConnectError", "JiraApiError", "RuntimeError"}
         /\ (Len(runs[r].error_message) = 1)
              <=> (runs[r].resps # <<>> /\ Last(runs[r].resps) = "error")
         /\ LinesOf(r, "error") = {Len(runs[r].log)}
         /\ Cardinality(EventsOf(r, "jira.sync.error")) = 1
         /\ EventsOf(r, "jira.sync.completed") = {}
         /\ Len(runs[r].trace) = RecordsBefore(r)
         /\ \A i \in 1..Len(runs[r].trace) :
              /\ runs[r].tasks1[runs[r].trace[i].task] = runs[r].trace[i].post
              /\ runs[r].trace[i].task <= Len(tasks)
              /\ tasks[runs[r].trace[i].task].jira_key = runs[r].trace[i].key

C13_Witness ==
  \E r \in 1..Len(runs) :
    /\ RaisedIn(r)
    /\ Len(runs[r].reqs) = 2
    /\ Len(runs[r].trace) = PageSize
    /\ Len(runs[r].tasks1) > Len(runs[r].tasks0)
    /\ \E i \in 1..Len(runs[r].trace) :
         runs[r].trace[i].n > 0 /\ runs[r].trace[i].post # runs[r].trace[i].pre

\* --------------------------------------------------------------- claim C14
\* C14: a 404 or 410 answer of the preferred search endpoint is not fatal to a
\* run: the search falls back to the offset-paged endpoint and the run still goes
\* through the whole result set and ends in success.
C14_SearchFallback ==
  \A r \in 1..Len(runs) :
    (Delivered(r) /\ \E i \in 1..Len(runs[r].resps) : runs[r].resps[i] = "404") =>
      (runs[r].status = "success" /\ ProcessedAll(r))

\* --------------------------------------------------------------- claim C15
\* C15: when the connection's credential cannot be decrypted, create-issue for a
\* task without a key, import and sync-now each answer 400, send no request to the
\* remote, leave the task as it was (unlinked) and the remote without a new record,
\* and create no profile and no run.
C15_UndecryptableCredential ==
  (/\ lastCall.op \in {"create", "import", "sync_now"}
   /\ ~lastCall.connOk
   /\ lastCall.op = "create" => lastCall.pre.jira_key = 0) =>
    /\ lastCall.result = "decrypt400"
    /\ lastCall.reqs = <<>> /\ lastCall.audit = <<>>
    /\ Len(issues) = lastCall.issuesBefore
    /\ Len(profiles) = lastCall.profilesBefore
    /\ Len(runs) = lastCall.runsBefore
    /\ \A r \in 1..Len(runs) : Ended(r)
    /\ lastCall.op = "create" =>
         (tasks[lastCall.task] = lastCall.pre /\ tasks[lastCall.task].jira_key = 0)

C15_Witness ==
  /\ lastCall.op = "sync_now"
  /\ lastCall.result = "decrypt400"
  /\ Len(profiles) >= 1 /\ Len(runs) = 1
  /\ \E t \in 1..Len(tasks) : tasks[t].jira_key = 0

\* --------------------------------------------------------------- claim C16
\* C16: pull and sync on a task without an external key or without a connection
\* reference fail with "Task is not linked to Jira" before any request is sent,
\* and leave the task row (version included), the comments and the audit log as
\* they were.
C16_NotLinkedFailsFirst ==
  (/\ lastCall.op \in {"pull", "sync"}
   /\ lastCall.pre.jira_key = 0 \/ lastCall.pre.jira_connection_id = 0) =>
    /\ lastCall.result = "notlinked"
    /\ lastCall.reqs = <<>>
    /\ lastCall.audit = <<>>
    /\ tasks[lastCall.task] = lastCall.pre
    /\ comments = lastCall.commentsBefore

C16_Witness ==
  /\ lastCall.op = "sync"
  /\ lastCall.result = "notlinked"
  /\ lastCall.pre.jira_key # 0
  /\ \E c \in 1..Len(comments) :
       comments[c].task_id = lastCall.task /\ comments[c].jira_comment_id = 0

\* --------------------------------------------------------------- claim C17
\* The task's local comments that had no export marker when the last call began.
Unexported(c) ==
  {i \in 1..Len(c.commentsBefore) :
     /\ c.commentsBefore[i].task_id = c.task
     /\ c.commentsBefore[i].source = "app"
     /\ c.commentsBefore[i].jira_comment_id = 0}

\* The answer the i-th comment's add-comment request got (requests go in the
\* comments' creation order, after the get-issue and list-comments requests).
AddAnswer(c, i) == c.resps[2 + Cardinality({j \in Unexported(c) : j <= i})]

\* C17: an export sends one add-comment for every unexported comment of the task,
\* also for those after a comment whose request failed; a comment whose request
\* failed keeps a null marker (so the next export selects it again), and the
\* exported count and the pushed audit event count only the comments that
\* succeeded.
C17_ExportGoesOnAfterFailure ==
  (lastCall.op = "sync" /\ lastCall.result = "ok") =>
    /\ Cardinality({i \in 1..Len(lastCall.reqs) : lastCall.reqs[i] = "addComment"})
         = Cardinality(Unexported(lastCall))
    /\ Len(lastCall.reqs) = 2 + Cardinality(Unexported(lastCall))
    /\ \A i \in Unexported(lastCall) :
         /\ AddAnswer(lastCall, i) = "error" => comments[i].jira_comment_id = 0
         /\ AddAnswer(lastCall, i) = "ok" => comments[i].jira_comment_id # 0
    /\ lastCall.exported
         = Cardinality({i \in Unexported(lastCall) : AddAnswer(lastCall, i) = "ok"})
    /\ (\E a \in 1..Len(lastCall.audit) : lastCall.audit[a] = "task.jira.comments.pushed")
         <=> lastCall.exported > 0

C17_Witness ==
  /\ lastCall.op = "sync" /\ lastCall.result = "ok"
  /\ \E i, j \in Unexported(lastCall) :
       /\ i < j
       /\ AddAnswer(lastCall, i) = "error"
       /\ AddAnswer(lastCall, j) = "ok"
       /\ comments[i].jira_comment_id = 0
       /\ comments[j].jira_comment_id # 0
  /\ lastCall.exported = 1

C19_NonRetryableStops ==
  lastCall.op = "create" =>
    \A i \in CreateIdx(lastCall) :
      lastCall.resps[i] = "500" =>
        /\ \A j \in CreateIdx(lastCall) : j <= i
        /\ lastCall.result = "raised"
        /\ tasks[lastCall.task] = lastCall.pre

\* The requests whose run looked the key up and found no task.
Missed(key) ==
  {r \in 1..Len(runs) :
     \E i \in 1..Len(runs[r].trace) : runs[r].trace[i].key = key /\ runs[r].trace[i].n = 0}

AllCommitted == \A s \in 1..MaxSessions : sessions[s].pc = "done"

\* C20: runs of one profile in concurrent requests are not kept apart: once they
\* have all committed, the board holds for every external key one task per run
\* whose lookup of the key found none, so two tasks for one (board, key) pair
\* when both runs looked the key up before either had stored its task.
C20_OneTaskPerMissedLookup ==
  AllCommitted =>
    \A key \in 1..Len(issues) :
      Cardinality(Matches(tasks, key)) = Cardinality(Missed(key))

\* Both runs looked key 1 up before either had stored a task for it, and the
\* board ends with two tasks bearing it.
C20_Witness ==
  /\ AllCommitted
  /\ Cardinality(Matches(tasks, 1)) = 2
  /\ \A r \in 1..Len(runs) :
       \E i \in 1..Len(runs[r].trace) :
         /\ runs[r].trace[i].key = 1
         /\ runs[r].trace[i].n = 0
         /\ runs[r].trace[i].alone

\* The last call is a sync that came right after a sync of the same task whose
\* every request was answered, and no comment was written on either side between.
SecondSyncInARow ==
  /\ lastCall.op = "sync"
  /\ lastCall.result = "ok"
  /\ lastCall.before.op = "sync"
  /\ lastCall.before.task = lastCall.task
  /\ lastCall.before.clean
  /\ lastCall.before.rcommentsAfter = lastCall.rcommentsBefore

\* C21: a local comment that was exported is not imported back as a new local
\* comment: the second of two consecutive syncs of a task, with no comment
\* written on either side between them, inserts no local comment and sends none.
C21_NoEcho ==
  SecondSyncInARow =>
    /\ lastCall.inserted = 0
    /\ \A i \in 1..Len(lastCall.reqs) : lastCall.reqs[i] # "addComment"

\* C22: after any sequence of imports, runs, manual links and create-and-link
\* calls, every task that carries an external key carries a connection reference
\* too (so a task a run created passes the linked test of pull and sync).
C22_KeyImpliesConnection ==
  \A t \in 1..Len(tasks) : tasks[t].jira_key # 0 => ~NotLinked(tasks[t])

\* Record i of run r matched a task that the run before wrote last (it created
\* the task, or applied the snapshot to it) and that nothing has written since,
\* while the remote record was changed after that write.
OnlyRemoteChanged(r, i) ==
  LET e == runs[r].trace[i]
  IN /\ e.n > 0
     /\ e.issue.updated > e.pre.jira_last_sync_at
     /\ \E j \in 1..Len(runs[r - 1].trace) :
          LET d == runs[r - 1].trace[j]
          IN /\ d.task = e.task
             /\ d.post = e.pre
             /\ (d.n = 0 \/ d.policy = "jiraWins")

ConflictLogged(r, key) ==
  \E k \in 1..Len(runs[r].log) :
    runs[r].log[k].kind = "Conflict" /\ runs[r].log[k].key = key

\* C23: when a task is not edited locally between two consecutive runs and only
\* the remote record changes in between, the second run counts no conflict for
\* it: the first run's own write is not taken for a local change.
C23_OwnWriteIsNoLocalChange ==
  \A r \in 2..Len(runs) : \A i \in 1..Len(runs[r].trace) :
    OnlyRemoteChanged(r, i) => ~ConflictLogged(r, runs[r].trace[i].key)

\* The remote comments the last call added, by remote id.
SentByLastCall ==
  (Len(lastCall.rcommentsBefore) + 1)..Len(lastCall.rcommentsAfter)

\* C24: an export sends only comments of local origin whose export marker is
\* null, oldest first; a comment imported from the remote (source "jira") is
\* never sent to it, whatever the pulls and syncs.
C24_ExportsLocalUnexportedOnly ==
  /\ \A k \in 1..Len(rcomments) :
       rcomments[k].by # 0 =>
         /\ rcomments[k].by \in 1..Len(comments)
         /\ comments[rcomments[k].by].source = "app"
  /\ lastCall.op = "sync" =>
       /\ \A k \in SentByLastCall :
            LET c == lastCall.rcommentsAfter[k].by
            IN /\ c \in 1..Len(lastCall.commentsBefore)
               /\ lastCall.commentsBefore[c].task_id = lastCall.task
               /\ lastCall.commentsBefore[c].source = "app"
               /\ lastCall.commentsBefore[c].jira_comment_id = 0
       /\ \A k1, k2 \in SentByLastCall :
            k1 < k2 =>
              comments[lastCall.rcommentsAfter[k1].by].created_at
                <= comments[lastCall.rcommentsAfter[k2].by].created_at

\* A sync that imported a remote comment and exported a local one while an
\* exported local comment was there already.
C24_Witness ==
  /\ lastCall.op = "sync"
  /\ lastCall.inserted = 1
  /\ lastCall.exported = 1
  /\ \E c \in 1..Len(lastCall.commentsBefore) :
       /\ lastCall.commentsBefore[c].task_id = lastCall.task
       /\ lastCall.commentsBefore[c].jira_comment_id # 0

\* The lane with the given id, the lanes a state key names, and the default lane:
\* the first lane of type backlog by position, else the first lane.
LaneOfId(id) == CHOOSE l \in 1..Len(lanes) : lanes[l].id = id
NamedLanes(state_key) == {l \in 1..Len(lanes) : lanes[l].state_key = state_key}
DefaultLane ==
  IF \E l \in 1..Len(lanes) : lanes[l].type = "backlog"
  THEN CHOOSE l \in 1..Len(lanes) :
         /\ lanes[l].type = "backlog"
         /\ \A k \in 1..(l - 1) : lanes[k].type # "backlog"
  ELSE 1

\* The tasks run r created, as trace entries.
Created(r) == {i \in 1..Len(runs[r].trace) : runs[r].trace[i].n = 0}

\* C25: a task a run creates is placed in a lane whose state key is the profile's
\* mapping of the record's status when the mapping exists and names a lane of the
\* board, otherwise in the default lane; its state key is that of its lane.
C25_LanePlacement ==
  \A r \in 1..Len(runs) : \A i \in Created(r) :
    LET e == runs[r].trace[i]
        mapped == profiles[runs[r].profile_id].status_to_state_key[e.issue.status]
    IN /\ \E l \in 1..Len(lanes) : lanes[l].id = e.post.lane_id
       /\ IF mapped # "" /\ NamedLanes(mapped) # {}
          THEN LaneOfId(e.post.lane_id) \in NamedLanes(mapped)
          ELSE LaneOfId(e.post.lane_id) = DefaultLane
       /\ e.post.state_key = lanes[LaneOfId(e.post.lane_id)].state_key

\* On a board whose default lane is not its first lane, a task of a status
\* without mapping and a task of a status mapped to a state no lane has were both
\* created in the default lane.
C25_Witness ==
  /\ DefaultLane # 1
  /\ \E r \in 1..Len(runs) : \E i \in Created(r) :
       /\ runs[r].trace[i].issue.status = "To Do"
       /\ LaneOfId(runs[r].trace[i].post.lane_id) = DefaultLane
  /\ \E r \in 1..Len(runs) : \E i \in Created(r) :
       /\ runs[r].trace[i].issue.status = "Done"
       /\ profiles[runs[r].profile_id].status_to_state_key["Done"] = "done"
       /\ NamedLanes("done") = {}
       /\ LaneOfId(runs[r].trace[i].post.lane_id) = DefaultLane

\* C26: a run on a board with zero lanes ends with status error and an error
\* message naming the missing lanes, sends no search request and creates or
\* updates no task.
C26_NoLanesFailsAtOnce ==
  Len(lanes) = 0 =>
    \A r \in 1..Len(runs) :
      /\ Ended(r)
      /\ runs[r].status = "error"
      /\ runs[r].error_message = <<"RuntimeError", "Board has no lanes">>
      /\ runs[r].reqs = <<>>
      /\ runs[r].trace = <<>>
      /\ runs[r].tasks1 = runs[r].tasks0
      /\ tasks = runs[r].tasks0

\* An import and a later sync-now of its profile, both on a board without lanes.
C26_Witness ==
  /\ Len(lanes) = 0
  /\ Len(runs) = 2
  /\ runs[2].audit[1].type = "jira.sync.started"

\* The last call is a create-and-link whose set-assignee request, sent after the
\* record was created, was refused by the remote with an API error.
AssignRefused ==
  /\ lastCall.op = "create"
  /\ lastCall.reqs # <<>>
  /\ Last(lastCall.reqs) = "assign"
  /\ Last(lastCall.resps) = "api"

\* C27: when set-assignee fails with a remote API error after the record was
\* created, create-and-link still succeeds: the task is linked to the created
\* key with its version incremented by 1, an assign_failed event comes before
\* the created event, and no second record is created.
C27_AssignFailureNotFatal ==
  AssignRefused =>
    /\ lastCall.result = "ok"
    /\ Len(issues) = lastCall.issuesBefore + 1
    /\ tasks[lastCall.task].jira_key = Len(issues)
    /\ tasks[lastCall.task].jira_connection_id # 0
    /\ tasks[lastCall.task].version = lastCall.pre.version + 1
    /\ lastCall.audit = <<"task.jira.assign_failed", "task.jira.created">>
    /\ Cardinality(CreateIdx(lastCall)) >= 1
    /\ \A i \in CreateIdx(lastCall) :
         lastCall.resps[i] = "ok" <=> i = Len(lastCall.reqs) - 1

\* The assignment was refused after a record that the second create attempt made.
C27_Witness ==
  /\ AssignRefused
  /\ Cardinality(CreateIdx(lastCall)) = 2
  /\ lastCall.pre.jira_key = 0
  /\ tasks[lastCall.task].jira_key # 0

\* The last call is a pull that got the record while listing the remote comments,
\* or importing them, failed.
PullWithFailedImport ==
  /\ lastCall.op = "pull"
  /\ Len(lastCall.resps) >= 2
  /\ lastCall.resps[1] = "ok"
  /\ lastCall.resps[2] = "error" \/ lastCall.importRaised

\* C28: when listing or importing the remote comments fails during a pull, the
\* pull still succeeds: the task's fields are overwritten from the remote record,
\* its version is incremented by exactly 1, its last-sync time is stamped, the
\* pulled audit event is written, and no comment is inserted.
C28_PullSurvivesCommentFailure ==
  PullWithFailedImport =>
    LET task == tasks[lastCall.task]
        issue == issues[lastCall.pre.jira_key]
    IN /\ lastCall.result = "ok"
       /\ task.title = issue.summary
       /\ task.tags = issue.labels
       /\ task.due_date = issue.duedate
       /\ task.jira_updated_at = issue.updated
       /\ task.version = lastCall.pre.version + 1
       /\ task.jira_last_sync_at > lastCall.pre.jira_last_sync_at
       /\ lastCall.audit = <<"task.jira.pulled">>
       /\ comments = lastCall.commentsBefore

\* C29: a task a run creates gets the highest order index of its target lane
\* plus 1, or 0 in an empty lane, so the tasks one run imports into one lane get
\* pairwise distinct, strictly increasing order indices, all above the indices
\* of the tasks that were in the lane already.
C29_AppendedToLane ==
  \A r \in 1..Len(runs) : \A i \in Created(r) :
    LET e == runs[r].trace[i]
    IN /\ e.post.order_index =
            (IF e.lane_orders = {} THEN 0 ELSE SetMax(e.lane_orders) + 1)
       /\ \A x \in e.lane_orders : e.post.order_index > x
       /\ \A j \in Created(r) :
            (i < j /\ runs[r].trace[j].post.lane_id = e.post.lane_id) =>
              e.post.order_index < runs[r].trace[j].post.order_index

\* One run created two tasks in a lane that held a task of order index 2.
C29_Witness ==
  \E r \in 1..Len(runs) : \E i, j \in Created(r) :
    /\ i < j
    /\ runs[r].trace[i].post.lane_id = runs[r].trace[j].post.lane_id
    /\ runs[r].trace[i].lane_orders = {2}
    /\ runs[r].trace[i].post.order_index = 3
    /\ runs[r].trace[j].post.order_index = 4

\* Log b is log a with entries appended, each of a known level.
Extends(a, b) ==
  /\ Len(a) <= Len(b)
  /\ SubSeq(b, 1, Len(a)) = a
  /\ \A k \in (Len(a) + 1)..Len(b) : b[k].level \in {"info", "warn", "error"}

LogAppendOnly ==
  \A r \in 1..Len(runs) :
    /\ Extends(runs[r].log, runs'[r].log)
    /\ Ended(r) => runs'[r].log = runs[r].log

\* C30: throughout a run every log write appends its entry, of level info, warn
\* or error, after all existing entries and never removes or changes an earlier
\* one, and no operation changes the log of a run that has ended in its terminal
\* status.
C30_LogAppendOnly == [][LogAppendOnly]_vars

\* A run that has ended with info and warn lines in its log, and a later run
\* that has written to its own log.
C30_Witness ==
  /\ Len(runs) = 2
  /\ Ended(1)
  /\ Len(runs[1].log) >= 3
  /\ \E k \in 1..Len(runs[2].log) : runs[2].log[k].level = "warn"
  /\ \E k \in 1..Len(runs[2].log) : runs[2].log[k].level = "info"
  /\ Ended(2)

====
